---- MODULE Spec2Model ----
(***************************************************************************)
(* ATH dip buyback bot (src/buyback_full.py, with the trigger logic of     *)
(* src/buyback.py): the orchestrator loop main + check_buyback and the     *)
(* swap fallback chain execute_swap (pump.fun, then Raydium).               *)
(*                                                                         *)
(* Prices are counted in ticks of 1e-4 (12.0 is 120000, 8.9999 is 89999),  *)
(* SOL amounts in lamports (1e-9 SOL); the thresholds and the spend        *)
(* fraction are decimal fractions <<numerator, denominator>>. The program  *)
(* computes with Python floats: the dip and the amounts are computed here  *)
(* on IEEE-754 doubles, rounding to nearest even at every operation.       *)
(***************************************************************************)
EXTENDS Integers, Sequences, FiniteSets, TLC

VARIABLES
    pc,               \* position of the process in main / check_buyback / execute_swap
    CONFIG,           \* config.json, loaded once
    ath,              \* global ath
    price,            \* main: price of the running cycle
    balance,          \* check_buyback: balance
    amount_sol,       \* execute_swap: quote["amount_sol"]
    amount_lamports,  \* execute_swap: int(amount_sol * 1e9)
    i,                \* execute_swap_pumpfun: index of the confirmation loop
    sig,              \* check_buyback: result of execute_swap
    cyc,              \* history of the running cycle
    prev,             \* history of the cycle before
    maxSince,         \* history: highest price fetched since the last reset of ath
    interrupted       \* a KeyboardInterrupt was delivered

vars == <<pc, CONFIG, ath, price, balance, amount_sol, amount_lamports, i, sig,
          cyc, prev, maxSince, interrupted>>

\* Python's None, for the numeric results (price, balance, amounts).
None == -1

\* execute_swap* returning None.
NoSig == "None"

(***************************************************************************)
(* Inputs of the model.                                                    *)
(***************************************************************************)
\* Price samples, in ticks of 1e-4: 0, 0.0009, 0.0012, 8.9999, 9.0, 9.5, 10.0,
\* 12.0.
Prices == {0, 9, 12, 89999, 90000, 95000, 100000, 120000}

\* Wallet balances in lamports: empty, the reserve exactly, 17 lamports
\* above the reserve.
Balances == {0, 10000000, 10000017}

\* dip_threshold values of the 0-1 range.
Thresholds == {<<0, 1>>, <<1, 4>>, <<1, 1>>}

\* buyback_percent values.
Percents == {<<9, 10>>}

\* min_sol_balance values, in lamports (0.01 SOL).
Reserves == {10000000}

\* Longest route response of the Raydium transaction API.
MaxTxList == 2

Configs == [dip_threshold : Thresholds, buyback_percent : Percents,
            min_sol_balance : Reserves]

DIP_THRESHOLD == CONFIG.dip_threshold
BUYBACK_PERCENT == CONFIG.buyback_percent
MIN_SOL_BALANCE == CONFIG.min_sol_balance

\* for i in range(30)
CONFIRM_POLLS == 30

(***************************************************************************)
(* Python floats (IEEE 754 binary64, round to nearest, ties to even).      *)
(* A natural number beyond 32 bits is a sequence of digits in base 2^15,   *)
(* least significant first, without leading zeros; <<>> is 0. A float is   *)
(* [m, e], standing for m * 2^e with m a natural of exactly 53 bits, or    *)
(* m = <<>> for 0.0. Only floats >= 0 in the normal range occur.           *)
(***************************************************************************)
Base == 32768

RECURSIVE BigTrim(_)
BigTrim(x) ==
    IF x = <<>> THEN <<>>
    ELSE IF x[Len(x)] = 0 THEN BigTrim(SubSeq(x, 1, Len(x) - 1))
    ELSE x

RECURSIVE BigOfInt(_)
BigOfInt(n) == IF n <= 0 THEN <<>> ELSE <<n % Base>> \o BigOfInt(n \div Base)

BigDigit(x, k) == IF k <= Len(x) THEN x[k] ELSE 0

RECURSIVE BigCmpFrom(_, _, _)
BigCmpFrom(x, y, k) ==
    IF k = 0 THEN 0
    ELSE IF x[k] > y[k] THEN 1
    ELSE IF x[k] < y[k] THEN -1
    ELSE BigCmpFrom(x, y, k - 1)

\* 1, 0 or -1 as x > y, x = y or x < y
BigCmp(x, y) ==
    IF Len(x) > Len(y) THEN 1
    ELSE IF Len(x) < Len(y) THEN -1
    ELSE BigCmpFrom(x, y, Len(x))

RECURSIVE BigAddFrom(_, _, _, _)
BigAddFrom(x, y, k, carry) ==
    IF k > Len(x) /\ k > Len(y)
    THEN IF carry = 0 THEN <<>> ELSE <<carry>>
    ELSE LET s == BigDigit(x, k) + BigDigit(y, k) + carry
         IN  <<s % Base>> \o BigAddFrom(x, y, k + 1, s \div Base)

BigAdd(x, y) == BigAddFrom(x, y, 1, 0)

RECURSIVE BigSubFrom(_, _, _, _)
BigSubFrom(x, y, k, borrow) ==
    IF k > Len(x) THEN <<>>
    ELSE LET d == x[k] - BigDigit(y, k) - borrow
         IN  <<IF d < 0 THEN d + Base ELSE d>>
                 \o BigSubFrom(x, y, k + 1, IF d < 0 THEN 1 ELSE 0)

\* x - y for x >= y
BigSub(x, y) == BigTrim(BigSubFrom(x, y, 1, 0))

RECURSIVE BigMulSmallFrom(_, _, _, _)
BigMulSmallFrom(x, n, k, carry) ==
    IF k > Len(x)
    THEN IF carry = 0 THEN <<>> ELSE <<carry>>
    ELSE LET s == x[k] * n + carry
         IN  <<s % Base>> \o BigMulSmallFrom(x, n, k + 1, s \div Base)

\* x * n for 0 <= n <= Base
BigMulSmall(x, n) == IF n = 0 THEN <<>> ELSE BigMulSmallFrom(x, n, 1, 0)

\* x * Base^n
BigShiftDigits(x, n) == IF x = <<>> THEN <<>> ELSE [k \in 1..n |-> 0] \o x

RECURSIVE BigMulFrom(_, _, _)
BigMulFrom(x, y, k) ==
    IF k > Len(y) THEN <<>>
    ELSE BigAdd(BigShiftDigits(BigMulSmall(x, y[k]), k - 1),
                BigMulFrom(x, y, k + 1))

BigMul(x, y) == BigMulFrom(x, y, 1)

RECURSIVE BigDivSmallFrom(_, _, _, _)
BigDivSmallFrom(x, n, k, r) ==
    IF k = 0 THEN [q |-> <<>>, r |-> r]
    ELSE LET cur  == r * Base + x[k]
             rest == BigDivSmallFrom(x, n, k - 1, cur % n)
         IN  [q |-> Append(rest.q, cur \div n), r |-> rest.r]

\* quotient and remainder of x by n, 0 < n <= 2 * Base
BigDivSmall(x, n) ==
    LET d == BigDivSmallFrom(x, n, Len(x), 0)
    IN  [q |-> BigTrim(d.q), r |-> d.r]

RECURSIVE BitLen(_)
BitLen(n) == IF n = 0 THEN 0 ELSE 1 + BitLen(n \div 2)

BigBitLen(x) == IF x = <<>> THEN 0 ELSE 15 * (Len(x) - 1) + BitLen(x[Len(x)])

\* x * 2^s
BigShl(x, s) == BigShiftDigits(BigMulSmall(x, 2 ^ (s % 15)), s \div 15)

\* floor(x / 2^s)
BigShr(x, s) ==
    IF s \div 15 >= Len(x) THEN <<>>
    ELSE BigDivSmall(SubSeq(x, s \div 15 + 1, Len(x)), 2 ^ (s % 15)).q

BigOdd(x) == x # <<>> /\ x[1] % 2 = 1

FloatZero == [m |-> <<>>, e |-> 0]

\* The float nearest to x * 2^e (x # 0); with sticky, to a value just above
\* x * 2^e (x then has more than 54 bits)
FloatRound(x, e, sticky) ==
    LET len == BigBitLen(x) IN
    IF len <= 53 THEN [m |-> BigShl(x, 53 - len), e |-> e - (53 - len)]
    ELSE LET s  == len - 53
             q  == BigShr(x, s)
             c  == BigCmp(BigSub(x, BigShl(q, s)), BigShl(<<1>>, s - 1))
             up == c > 0 \/ (c = 0 /\ (sticky \/ BigOdd(q)))
             m1 == IF up THEN BigAdd(q, <<1>>) ELSE q
         IN  IF BigBitLen(m1) > 53
             THEN [m |-> BigShr(m1, 1), e |-> e + s + 1]
             ELSE [m |-> m1, e |-> e + s]

\* float() of the decimal n / d (0 <= n, 0 < d <= 2 * Base): the nearest float
Float(n, d) ==
    IF n <= 0 THEN FloatZero
    ELSE LET dv == BigDivSmall(BigShiftDigits(BigOfInt(n), 6), d)
         IN  FloatRound(dv.q, -90, dv.r # 0)

\* x - y for floats x >= y
FloatSub(x, y) ==
    IF y.m = <<>> THEN x
    ELSE LET d == BigSub(BigShl(x.m, x.e - y.e), y.m)
         IN  IF d = <<>> THEN FloatZero ELSE FloatRound(d, y.e, FALSE)

\* x / a >= t for floats x, a, t with a > 0: the quotient rounds to t or above
\* exactly when x / a is above the midpoint of t and the float before t, or
\* equal to it with t the even neighbour
FloatDivGe(x, a, t) ==
    IF t.m = <<>> THEN TRUE
    ELSE IF x.m = <<>> THEN FALSE
    ELSE LET pow2 == BigCmp(t.m, BigShl(<<1>>, 52)) = 0
             midM == IF pow2 THEN BigSub(BigShl(t.m, 2), <<1>>)
                     ELSE BigSub(BigShl(t.m, 1), <<1>>)
             midE == IF pow2 THEN t.e - 2 ELSE t.e - 1
             r    == BigMul(midM, a.m)
             d    == x.e - (midE + a.e)
             c    == IF d >= 0 THEN BigCmp(BigShl(x.m, d), r)
                     ELSE BigCmp(x.m, BigShl(r, 0 - d))
         IN  c > 0 \/ (c = 0 /\ ~BigOdd(t.m))

\* x * y for floats
FloatMul(x, y) ==
    IF x.m = <<>> \/ y.m = <<>> THEN FloatZero
    ELSE FloatRound(BigMul(x.m, y.m), x.e + y.e, FALSE)

RECURSIVE BigToInt(_)
BigToInt(x) == IF x = <<>> THEN 0 ELSE x[1] + Base * BigToInt(Tail(x))

\* int(x) for a float 0 <= x < 2^31
FloatInt(x) ==
    IF x.m = <<>> THEN 0
    ELSE IF x.e >= 0 THEN BigToInt(BigShl(x.m, x.e))
    ELSE BigToInt(BigShr(x.m, 0 - x.e))

\* 1e9 = 31250 * 32000
LamportsPerSol == 1000000000

\* lamports / 1e9: the float nearest to the quotient
FloatSol(lamports) ==
    IF lamports <= 0 THEN FloatZero
    ELSE LET d1 == BigDivSmall(BigShiftDigits(BigOfInt(lamports), 6), 31250)
             d2 == BigDivSmall(d1.q, 32000)
         IN  FloatRound(d2.q, -90, d1.r # 0 \/ d2.r # 0)

\* int(x * 1e9) for a float x
IntLamports(x) == FloatInt(FloatMul(x, Float(LamportsPerSol, 1)))

(***************************************************************************)
(* Pure parts of main and check_buyback.                                   *)
(***************************************************************************)
\* Variant of MainAth that assigns the price whatever ath is.
MainAthOverwrite(a, p) == p

\* main: if ath > 0: (log) else: ath = price
MainAth(a, p) == IF a > 0 THEN a ELSE p

\* check_buyback: if price > ath
IsNewAth(a, p) == p > a

\* Variant of DipRaises in which the division never fails.
DipRaisesNever(a) == FALSE

\* check_buyback: dip = (ath - price) / ath raises ZeroDivisionError
DipRaises(a) == a = 0

\* A price of t ticks is the decimal t / 10000
TicksPerUnit == 10000

\* check_buyback: dip = (ath - price) / ath; dip >= DIP_THRESHOLD, in floats
FloatDip(a, p, thr) ==
    LET fa == Float(a, TicksPerUnit)
        fp == Float(p, TicksPerUnit)
    IN  FloatDivGe(FloatSub(fa, fp), fa, Float(thr[1], thr[2]))

\* FloatDip on the inputs of the model, computed once
DipTable ==
    [x \in {y \in Prices \X Prices \X Thresholds : y[1] > 0 /\ y[2] <= y[1]}
        |-> FloatDip(x[1], x[2], x[3])]

\* check_buyback: dip >= DIP_THRESHOLD, with dip = (ath - price) / ath, for
\* 0 <= price <= ath, ath > 0: the floats of the two decimal prices are
\* subtracted, the difference is divided by the float of ath, and the
\* quotient is compared with the float of the threshold
DipReached(a, p, thr) ==
    IF <<a, p, thr>> \in DOMAIN DipTable THEN DipTable[<<a, p, thr>>]
    ELSE FloatDip(a, p, thr)

\* check_buyback: if not balance
NotBalance(b) == b = None \/ b = 0

\* check_buyback: available = balance - MIN_SOL_BALANCE, in lamports; the
\* float difference has the sign of this one
Available(b, reserve) == b - reserve

\* check_buyback: if available <= 0
Insufficient(available) == available <= 0

\* check_buyback: balance = resp.value / 1e9; available = balance -
\* MIN_SOL_BALANCE; buyback_sol = available * BUYBACK_PERCENT;
\* int(buyback_sol * 1e9), for a balance of b lamports above the reserve
FloatBuyback(b, reserve, f) ==
    IntLamports(FloatMul(FloatSub(FloatSol(b), FloatSol(reserve)),
                         Float(f[1], f[2])))

\* FloatBuyback on the inputs of the model, computed once
LamportsTable ==
    [x \in {y \in Balances \X Reserves \X Percents : y[1] > y[2]}
        |-> FloatBuyback(x[1], x[2], x[3])]

\* check_buyback: buyback_lamports; below the reserve the floats are the
\* negatives of those of the mirrored case, and int() truncates towards 0
BuybackLamports(b, reserve, f) ==
    IF <<b, reserve, f>> \in DOMAIN LamportsTable
    THEN LamportsTable[<<b, reserve, f>>]
    ELSE IF b >= reserve THEN FloatBuyback(b, reserve, f)
    ELSE 0 - FloatBuyback(reserve, b, f)

\* get_quote: {"amount_sol": amount_lamports / 1e9}; the float is carried as
\* the number of lamports it is the quotient of
get_quote(lamports) == [amount_sol |-> lamports]

\* SwapLamports on the amounts of the model, computed once
SwapTable ==
    [l \in {LamportsTable[x] : x \in DOMAIN LamportsTable}
        |-> IntLamports(FloatSol(l))]

\* execute_swap: amount_lamports = int(amount_sol * 1e9)
SwapLamports(l) ==
    IF l \in DOMAIN SwapTable THEN SwapTable[l] ELSE IntLamports(FloatSol(l))

\* check_buyback: if sig: ath = price
AthAfterSwap(s, p, a) == IF s # NoSig THEN p ELSE a

(***************************************************************************)
(* Pure parts of the swap chain.                                           *)
(***************************************************************************)
\* Ends of the trade request of pump.fun, up to the signing of its answer
RequestOutcomes == {"request_error", "short_payload", "sign_error", "signed"}

\* Ends of send_raw_transaction
SubmitOutcomes == {"submit_rejected", "submitted"}

\* Answers of the Raydium transaction API: none or "success" false or no
\* "data", one with "success" and "data", one of another shape
RouteAnswers == {"fail", "success", "malformed"}

StatusOutcomes == {"pending", "confirmed", "err", "rpc_error"}

\* Variant of PumpfunStatus that gives no transaction id for a confirmed
\* transaction.
PumpfunStatusNoId(status, txid) ==
    IF status = "pending" THEN [do |-> "continue", value |-> NoSig]
    ELSE [do |-> "return", value |-> NoSig]

\* execute_swap_pumpfun: the body of the confirmation loop for one status:
\* "return" with the value, or "continue"
PumpfunStatus(status, txid) ==
    CASE status = "confirmed" -> [do |-> "return", value |-> txid]
      [] status = "err"       -> [do |-> "return", value |-> NoSig]
      [] status = "rpc_error" -> [do |-> "return", value |-> NoSig]
      [] OTHER                -> [do |-> "continue", value |-> NoSig]

\* Variant of PumpfunTimeout that takes a submitted transaction as done.
PumpfunTimeoutAsSuccess(txid) == txid

\* execute_swap_pumpfun: the value returned when the loop runs out
PumpfunTimeout(txid) == NoSig

\* Variant of FallsThrough that goes on to Raydium whatever pump.fun returned.
FallsThroughAlways(s) == TRUE

\* execute_swap: if sig: return sig, else go on to Raydium
FallsThrough(s) == s = NoSig

\* Route responses: for each entry of swap_data["data"], whether it carries
\* a "transaction" payload.
TxLists == UNION {[1..n -> BOOLEAN] : n \in 0..MaxTxList}

\* execute_swap_raydium: the entries the for loop reaches before it returns:
\* it skips entries without payload and returns at the first one with payload
RECURSIVE FirstTx(_, _)

\* Variant of FirstTx that does not skip the entries without payload.
FirstTxNoSkip(tx_list, k) == IF k > Len(tx_list) THEN 0 ELSE k

FirstTx(tx_list, k) ==
    IF k > Len(tx_list) THEN 0
    ELSE IF tx_list[k] THEN k
    ELSE FirstTx(tx_list, k + 1)

SendOutcomes == {"decode_error", "rejected", "accepted"}

\* Variant of RaydiumResult that gives no transaction id for a submission the
\* RPC node took.
RaydiumResultNoId(ok, tx_list, send) ==
    IF ~ok \/ Len(tx_list) = 0 \/ FirstTx(tx_list, 1) = 0
    THEN [do |-> "return", value |-> NoSig, sent |-> 0, entry |-> 0]
    ELSE [do |-> IF send = "decode_error" THEN "raise" ELSE "return",
          value |-> NoSig,
          sent |-> IF send = "decode_error" THEN 0 ELSE 1,
          entry |-> IF send = "decode_error" THEN 0 ELSE FirstTx(tx_list, 1)]

\* execute_swap_raydium: result for a route response and the outcome of the
\* one submission: "return" with the value, or "raise"; sent = 1 when
\* send_raw_transaction was called, for the entry of the response in entry
RaydiumResult(ok, tx_list, send) ==
    IF ~ok \/ Len(tx_list) = 0 \/ FirstTx(tx_list, 1) = 0
    THEN [do |-> "return", value |-> NoSig, sent |-> 0, entry |-> 0]
    ELSE LET k == FirstTx(tx_list, 1) IN
         CASE send = "decode_error" ->
                [do |-> "raise", value |-> NoSig, sent |-> 0, entry |-> 0]
           [] send = "rejected" ->
                [do |-> "return", value |-> NoSig, sent |-> 1, entry |-> k]
           [] OTHER ->
                [do |-> "return", value |-> "txB", sent |-> 1, entry |-> k]

(***************************************************************************)
(* History records.                                                        *)
(***************************************************************************)
NoCycle ==
    [athStart   |-> 0,        \* ath when the cycle began
     athCheck   |-> 0,        \* ath when check_buyback was entered
     fetched    |-> FALSE,    \* get_price returned a price
     raised     |-> FALSE,    \* an exception reached main's handler
     newAth     |-> FALSE,    \* check_buyback took the new-ATH branch
     triggered  |-> FALSE,    \* dip >= DIP_THRESHOLD was true
     balQueried |-> FALSE,    \* get_balance was called
     available  |-> None,     \* balance - MIN_SOL_BALANCE of a funded trigger
     swapCalled |-> FALSE,    \* execute_swap was called
     swapDone   |-> FALSE,    \* execute_swap returned or raised
     attempts   |-> <<>>,     \* venues contacted, in order
     amountA    |-> None,     \* amount handed to venue A
     amountB    |-> None,     \* amount handed to venue B
     aOutcome   |-> "none",   \* how venue A ended
     bOutcome   |-> "none",   \* how venue B ended
     polls      |-> 0,        \* status queries made
     lastStatus |-> "none",   \* answer to the latest status query
     submitted  |-> <<>>,     \* venues whose transaction the RPC node took
     txList     |-> <<>>,     \* the route response venue B submitted from
     bEntries   |-> <<>>]     \* its entries handed to send_raw_transaction

\* What the next cycle needs of a cycle: whether execute_swap was called and
\* gave no transaction id, and the ath that cycle was triggered from; and
\* insuffAth, the ath at which that cycle stopped at "Insufficient balance"
\* (0: it did not).
NoPrev == [swapFailed |-> FALSE, ath |-> 0, price |-> None, insuffAth |-> 0]

\* The running cycle stopped at check_buyback's "Insufficient balance".
InsufficientAbort(c) ==
    c.balQueried /\ balance > 0 /\ balance - MIN_SOL_BALANCE <= 0

Summary(c) ==
    [swapFailed |-> c.swapCalled /\ sig = NoSig,
     ath        |-> IF c.swapCalled /\ sig = NoSig THEN c.athCheck ELSE 0,
     price      |-> IF c.swapCalled /\ sig = NoSig THEN price ELSE None,
     insuffAth  |-> IF InsufficientAbort(c) THEN c.athCheck ELSE 0]

(***************************************************************************)
(* Initial state: module level of buyback_full.py.                         *)
(***************************************************************************)
Init ==
    /\ pc = "start"
    /\ CONFIG \in Configs
    /\ ath = 0
    /\ price = None
    /\ balance = None
    /\ amount_sol = None
    /\ amount_lamports = None
    /\ i = 0
    /\ sig = NoSig
    /\ cyc = NoCycle
    /\ prev = NoPrev
    /\ maxSince = None
    /\ interrupted = FALSE

(***************************************************************************)
(* KeyboardInterrupt. One action runs from one blocking call (a network    *)
(* request, an RPC call, a sleep) to the next. The interrupt falls during  *)
(* the blocking call (Interrupt below), or in the code that follows it: in *)
(* that case the action itself ends in "stopped", either before the        *)
(* assignments of that code to ath and to the amounts ("early") or after   *)
(* them ("late").                                                          *)
(***************************************************************************)
Stops == {"no", "early", "late"}

\* pc after the code that follows a blocking call
AfterStop(stop, target) == IF stop = "no" THEN target ELSE "stopped"

(***************************************************************************)
(* main, before the loop: balance = get_balance(), then the balance is     *)
(* formatted with {balance:.4f}, which raises TypeError for None outside   *)
(* any try block.                                                          *)
(***************************************************************************)
\* main: log(f"Wallet balance: {balance:.4f} SOL") raises for None
BannerRaises(b) == b = None

Start ==
    /\ pc = "start"
    /\ \E b \in Balances \cup {None} :
         pc' = IF BannerRaises(b) THEN "crashed" ELSE "poll"
    /\ UNCHANGED <<CONFIG, ath, price, balance, amount_sol, amount_lamports,
                   i, sig, cyc, prev, maxSince, interrupted>>

(***************************************************************************)
(* One pass of the loop from get_price() up to the first external call of  *)
(* check_buyback (get_balance), or to the end of the pass.                 *)
(***************************************************************************)
\* Variant of PriceIsNone that lets a missing price through.
PriceIsNoneNever(p) == FALSE

\* main: if price is None
PriceIsNone(p) == p = None

\* check_buyback up to the trigger, for ath a (after main's assignment)
Branch(a, p, thr) ==
    IF IsNewAth(a, p) THEN "new_ath"
    ELSE IF DipRaises(a) THEN "raise"
    ELSE IF DipReached(a, p, thr) THEN "trigger"
    ELSE "no_dip"

FetchPrice ==
    /\ pc = "poll"
    /\ \E p \in Prices \cup {None}, stop \in Stops :
         /\ interrupted' = (stop # "no")
         /\ IF PriceIsNone(p)
            THEN /\ stop # "early"
                 /\ price' = p
                 /\ pc' = AfterStop(stop, "sleep")
                 /\ cyc' = [cyc EXCEPT !.athStart = ath]
                 /\ UNCHANGED <<ath, maxSince>>
            ELSE LET a1 == MainAth(ath, p)
                     br == Branch(a1, p, DIP_THRESHOLD)
                     a2 == IF br = "new_ath" THEN p ELSE a1
                 IN  /\ stop = "early" => a2 # ath
                     /\ price' = p
                     /\ ath' = IF stop = "early" THEN ath ELSE a2
                     /\ pc' = AfterStop(stop, IF br = "trigger" THEN "balance"
                                              ELSE "sleep")
                     /\ maxSince' = IF p > maxSince THEN p ELSE maxSince
                     /\ cyc' = IF stop = "early"
                               THEN [cyc EXCEPT !.athStart = ath,
                                                !.fetched = TRUE]
                               ELSE [cyc EXCEPT !.athStart = ath,
                                                !.athCheck = a1,
                                                !.fetched = TRUE,
                                                !.raised = (br = "raise"),
                                                !.newAth = (br = "new_ath"),
                                                !.triggered = (br = "trigger")]
    /\ UNCHANGED <<CONFIG, balance, amount_sol, amount_lamports, i, sig, prev>>

\* get_price raises (float() of a malformed priceNative, a malformed pairs
\* entry): caught by main's except Exception, then time.sleep.
PriceRaises ==
    /\ pc = "poll"
    /\ \E stop \in {"no", "late"} :
         /\ pc' = AfterStop(stop, "sleep")
         /\ interrupted' = (stop # "no")
    /\ cyc' = [cyc EXCEPT !.athStart = ath, !.raised = TRUE]
    /\ UNCHANGED <<CONFIG, ath, price, balance, amount_sol, amount_lamports,
                   i, sig, prev, maxSince>>

(***************************************************************************)
(* check_buyback from balance = get_balance() up to the request of         *)
(* execute_swap_pumpfun. get_balance returns None for every exception      *)
(* (bare except).                                                          *)
(***************************************************************************)
\* Variant of AfterBalance without the two checks of the balance.
AfterBalanceUnchecked(b, available) == "pumpfun"

\* check_buyback: where it goes after get_balance returned b
AfterBalance(b, available) ==
    IF NotBalance(b) THEN "sleep"
    ELSE IF Insufficient(available) THEN "sleep"
    ELSE "pumpfun"

GetBalance ==
    /\ pc = "balance"
    /\ \E b \in Balances \cup {None}, stop \in Stops :
         LET available == Available(b, MIN_SOL_BALANCE) IN
         /\ balance' = b
         /\ pc' = AfterStop(stop, AfterBalance(b, available))
         /\ interrupted' = (stop # "no")
         /\ IF AfterBalance(b, available) = "sleep"
            THEN /\ stop # "early"
                 /\ cyc' = [cyc EXCEPT !.balQueried = TRUE]
                 /\ UNCHANGED <<amount_sol, amount_lamports>>
            ELSE IF stop = "early"
            THEN /\ cyc' = [cyc EXCEPT !.balQueried = TRUE]
                 /\ UNCHANGED <<amount_sol, amount_lamports>>
            ELSE LET quote == get_quote(BuybackLamports(b, MIN_SOL_BALANCE,
                                                         BUYBACK_PERCENT))
                 IN  /\ amount_sol' = quote.amount_sol
                     /\ amount_lamports' = SwapLamports(quote.amount_sol)
                     /\ cyc' = [cyc EXCEPT !.balQueried = TRUE,
                                         !.available = available,
                                         !.swapCalled = TRUE]
    /\ UNCHANGED <<CONFIG, ath, price, i, sig, prev, maxSince>>

(***************************************************************************)
(* execute_swap_pumpfun: the trade request with the signing of its answer, *)
(* then the submission. Every failure is caught by its except Exception    *)
(* and returns None, after which execute_swap goes on to Raydium.          *)
(***************************************************************************)
\* execute_swap_pumpfun up to send_raw_transaction: the value returned for a
\* failed request, or "send" when there is a signed transaction
PumpfunRequest(outcome) == IF outcome = "signed" THEN "send" ELSE NoSig

\* execute_swap_pumpfun, send_raw_transaction: the value returned for a
\* rejected submission, or "wait" when the transaction was submitted
PumpfunSubmit(outcome) == IF outcome = "submitted" THEN "wait" ELSE NoSig

\* Variant of AfterPumpfun without the fallback to Raydium.
AfterPumpfunNoFallback(s) == "sleep"

\* where execute_swap continues after execute_swap_pumpfun returned s
AfterPumpfun(s) == IF FallsThrough(s) THEN "raydium" ELSE "sleep"

PumpfunTrade ==
    /\ pc = "pumpfun"
    /\ \E outcome \in RequestOutcomes, stop \in {"no", "late"} :
         LET r == PumpfunRequest(outcome) IN
         /\ cyc' = [cyc EXCEPT
                      !.attempts = Append(@, "A"),
                      !.amountA = amount_sol,
                      !.aOutcome = IF r = "send" THEN @ ELSE outcome]
         /\ pc' = AfterStop(stop, IF r = "send" THEN "pumpfun_send"
                                  ELSE AfterPumpfun(r))
         /\ interrupted' = (stop # "no")
    /\ UNCHANGED <<CONFIG, ath, price, balance, amount_sol, amount_lamports,
                   i, sig, prev, maxSince>>

PumpfunSend ==
    /\ pc = "pumpfun_send"
    /\ \E outcome \in SubmitOutcomes, stop \in {"no", "late"} :
         LET r == PumpfunSubmit(outcome) IN
         /\ cyc' = [cyc EXCEPT
                      !.aOutcome = IF r = "wait" THEN @ ELSE outcome,
                      !.submitted = IF r = "wait" THEN Append(@, "A") ELSE @]
         /\ pc' = AfterStop(stop, IF r = "wait" THEN "confirm"
                                  ELSE AfterPumpfun(r))
         /\ interrupted' = (stop # "no")
    /\ i' = 0
    /\ UNCHANGED <<CONFIG, ath, price, balance, amount_sol, amount_lamports,
                   sig, prev, maxSince>>

(***************************************************************************)
(* execute_swap_pumpfun: one pass of for i in range(30): sleep, query the  *)
(* status, return or go round again. A confirmed transaction ends          *)
(* execute_swap and check_buyback (ath = price).                           *)
(***************************************************************************)
PumpfunConfirm ==
    /\ pc = "confirm"
    /\ \E status \in StatusOutcomes, stop \in Stops :
         LET st   == PumpfunStatus(status, "txA")
             last == i + 1 >= CONFIRM_POLLS
             done == st.do = "return" \/ last
             s    == IF st.do = "return" THEN st.value ELSE PumpfunTimeout("txA")
         IN  /\ stop = "early" => (done /\ ~FallsThrough(s))
             /\ i' = IF done THEN 0 ELSE i + 1
             /\ cyc' = [cyc EXCEPT
                          !.polls = @ + 1,
                          !.lastStatus = status,
                          !.aOutcome = IF ~done THEN @
                                       ELSE IF st.do = "return" THEN status
                                       ELSE "timeout",
                          !.swapDone = done /\ ~FallsThrough(s)]
             /\ pc' = AfterStop(stop, IF done THEN AfterPumpfun(s) ELSE "confirm")
             /\ interrupted' = (stop # "no")
             /\ sig' = IF done THEN s ELSE sig
             /\ ath' = IF done /\ ~FallsThrough(s) /\ stop # "early"
                       THEN AthAfterSwap(s, price, ath) ELSE ath
             /\ maxSince' = IF done /\ s # NoSig /\ stop # "early"
                            THEN price ELSE maxSince
    /\ UNCHANGED <<CONFIG, price, balance, amount_sol, amount_lamports, prev>>

(***************************************************************************)
(* execute_swap_raydium: the route request with the decoding and signing   *)
(* of the first payload, then the submission, and the rest of execute_swap *)
(* and check_buyback. Decoding and signing are outside the try block:      *)
(* their exceptions reach main's handler and check_buyback does not go on. *)
(***************************************************************************)
\* execute_swap_raydium: swap_data.get, swap_data["data"] and tx_data.get
\* raise for an answer that is not an object holding a list of objects
RouteRaises(answer) == answer = "malformed"

RaydiumRoute ==
    /\ pc = "raydium"
    /\ \E answer \in RouteAnswers, tx_list \in TxLists, decodes \in BOOLEAN,
          stop \in {"no", "late"} :
         LET r == IF RouteRaises(answer)
                  THEN [do |-> "raise", value |-> NoSig, sent |-> 0, entry |-> 0]
                  ELSE RaydiumResult(answer = "success", tx_list,
                                     IF decodes THEN "accepted"
                                     ELSE "decode_error")
         IN  /\ cyc' = [cyc EXCEPT
                          !.attempts = Append(@, "B"),
                          !.amountB = amount_lamports,
                          !.bOutcome = IF r.sent = 1 THEN @
                                       ELSE IF r.do = "raise" THEN "raise"
                                       ELSE "no_route",
                          !.raised = (r.do = "raise"),
                          !.swapDone = (r.sent = 0),
                          !.txList = IF r.sent = 1 THEN tx_list ELSE <<>>]
             /\ pc' = AfterStop(stop, IF r.sent = 1 THEN "raydium_send"
                                      ELSE "sleep")
             /\ interrupted' = (stop # "no")
    /\ UNCHANGED <<CONFIG, ath, price, balance, amount_sol, amount_lamports,
                   i, sig, prev, maxSince>>

RaydiumSend ==
    /\ pc = "raydium_send"
    /\ \E send \in SendOutcomes \ {"decode_error"}, stop \in Stops :
         LET r == RaydiumResult(TRUE, cyc.txList, send) IN
         /\ stop = "early" => r.value # NoSig
         /\ sig' = r.value
         /\ ath' = IF stop = "early" THEN ath
                   ELSE AthAfterSwap(r.value, price, ath)
         /\ maxSince' = IF r.value # NoSig /\ stop # "early"
                        THEN price ELSE maxSince
         /\ cyc' = [cyc EXCEPT
                      !.bOutcome = send,
                      !.swapDone = TRUE,
                      !.submitted = IF r.value # NoSig THEN Append(@, "B")
                                    ELSE @,
                      !.bEntries = IF r.sent = 1 THEN Append(@, r.entry)
                                   ELSE @]
         /\ pc' = AfterStop(stop, "sleep")
         /\ interrupted' = (stop # "no")
    /\ UNCHANGED <<CONFIG, price, balance, amount_sol, amount_lamports, i,
                   prev>>

(***************************************************************************)
(* time.sleep(POLL_INTERVAL), then the next pass of while True.            *)
(***************************************************************************)
Sleep ==
    /\ pc = "sleep"
    /\ pc' = "poll"
    /\ prev' = Summary(cyc)
    /\ cyc' = NoCycle
    /\ price' = None
    /\ balance' = None
    /\ amount_sol' = None
    /\ amount_lamports' = None
    /\ sig' = NoSig
    /\ UNCHANGED <<CONFIG, ath, i, maxSince, interrupted>>

(***************************************************************************)
(* KeyboardInterrupt during a blocking call: main's except                 *)
(* KeyboardInterrupt breaks the loop, and outside the try block the        *)
(* interrupt ends the process. get_balance swallows an interrupt that      *)
(* falls inside its RPC call (bare except); at "balance" the interrupt     *)
(* falls in the log calls of check_buyback that come before it.            *)
(***************************************************************************)
Interruptible == {"start", "poll", "balance", "pumpfun", "pumpfun_send",
                  "confirm", "raydium", "raydium_send", "sleep"}

Interrupt ==
    /\ pc \in Interruptible
    /\ pc' = "stopped"
    /\ interrupted' = TRUE
    /\ UNCHANGED <<CONFIG, ath, price, balance, amount_sol, amount_lamports,
                   i, sig, cyc, prev, maxSince>>

Next ==
    \/ Start
    \/ FetchPrice
    \/ PriceRaises
    \/ GetBalance
    \/ PumpfunTrade
    \/ PumpfunSend
    \/ PumpfunConfirm
    \/ RaydiumRoute
    \/ RaydiumSend
    \/ Sleep
    \/ Interrupt

Spec == Init /\ [][Next]_vars

TypeOK ==
    /\ pc \in {"start", "poll", "balance", "pumpfun", "pumpfun_send",
               "confirm", "raydium", "raydium_send", "sleep", "stopped",
               "crashed"}
    /\ CONFIG \in Configs
    /\ ath \in Prices
    /\ price \in Prices \cup {None}
    /\ i \in 0..(CONFIRM_POLLS - 1)
    /\ sig \in {NoSig, "txA", "txB"}
    /\ interrupted = (pc = "stopped")

(***************************************************************************)
(* The basic variant, buyback.py. Its constants are module constants, its  *)
(* main loop and the first half of check_and_buyback read as those of      *)
(* buyback_full.py (FetchPrice, PriceRaises, Sleep); it has one venue,     *)
(* Jupiter, and it signs and submits nothing.                              *)
(***************************************************************************)
\* DIP_THRESHOLD = 0.25, BUYBACK_PERCENT = 0.90, MIN_SOL_BALANCE = 0.01
BasicConfig ==
    [dip_threshold |-> <<1, 4>>, buyback_percent |-> <<9, 10>>,
     min_sol_balance |-> 10000000]

InitBasic ==
    /\ pc = "start"
    /\ CONFIG = BasicConfig
    /\ ath = 0
    /\ price = None
    /\ balance = None
    /\ amount_sol = None
    /\ amount_lamports = None
    /\ i = 0
    /\ sig = NoSig
    /\ cyc = NoCycle
    /\ prev = NoPrev
    /\ maxSince = None
    /\ interrupted = FALSE

\* main: the initial balance is logged only if balance: nothing raises
StartBasic ==
    /\ pc = "start"
    /\ pc' = "poll"
    /\ UNCHANGED <<CONFIG, ath, price, balance, amount_sol, amount_lamports,
                   i, sig, cyc, prev, maxSince, interrupted>>

\* check_and_buyback: if balance is None
BalanceIsNone(b) == b = None

\* Answers of the quote API: no answer, an empty object, a non-empty answer
\* whose outAmount is not a number or that is not an object, a quote
QuoteAnswers == {"none", "empty", "malformed", "quote"}

\* check_and_buyback: if not quote
NotQuote(quote) == quote \in {"none", "empty"}

\* check_and_buyback: out_amount = int(quote.get("outAmount", 0)) raises
QuoteRaises(quote) == quote = "malformed"

\* Answers of the swap API: no answer, an object without "swapTransaction",
\* an answer that is not a container, an answer with "swapTransaction" whose
\* value cannot be sliced (or a string holding that word), an unsigned
\* transaction
SwapAnswers == {"none", "error_object", "not_container", "unsliceable",
                "swapTransaction"}

\* check_and_buyback: if swap_result and "swapTransaction" in swap_result
SwapTransactionReceived(swap_result) ==
    swap_result \in {"unsliceable", "swapTransaction"}

\* check_and_buyback: the membership test raises for a number, and
\* swap_result['swapTransaction'][:80] raises before ath = price
SwapRaises(swap_result) == swap_result \in {"not_container", "unsliceable"}

\* check_and_buyback: ath = price in the branch of a received transaction,
\* unless an exception came first; ath untouched otherwise
AthAfterJupiter(swap_result, p, a) ==
    IF SwapTransactionReceived(swap_result) /\ ~SwapRaises(swap_result)
    THEN p ELSE a

\* check_and_buyback from get_wallet_balance up to the quote request
check_and_buyback ==
    /\ pc = "balance"
    /\ \E b \in Balances \cup {None}, stop \in Stops :
         LET available == Available(b, MIN_SOL_BALANCE)
             funded    == ~BalanceIsNone(b) /\ ~Insufficient(available)
         IN  /\ balance' = b
             /\ stop = "early" => funded
             /\ amount_lamports' =
                    IF funded /\ stop # "early"
                    THEN BuybackLamports(b, MIN_SOL_BALANCE, BUYBACK_PERCENT)
                    ELSE None
             /\ pc' = AfterStop(stop, IF funded THEN "quote" ELSE "sleep")
             /\ interrupted' = (stop # "no")
             /\ cyc' = [cyc EXCEPT
                          !.balQueried = TRUE,
                          !.available = IF funded /\ stop # "early"
                                        THEN available ELSE None]
    /\ UNCHANGED <<CONFIG, ath, price, amount_sol, i, sig, prev, maxSince>>

\* get_jupiter_quote and check_and_buyback up to the swap request
get_jupiter_quote ==
    /\ pc = "quote"
    /\ \E quote \in QuoteAnswers, stop \in {"no", "late"} :
         /\ pc' = AfterStop(stop, IF NotQuote(quote) \/ QuoteRaises(quote)
                                  THEN "sleep" ELSE "jupiter")
         /\ interrupted' = (stop # "no")
         /\ cyc' = [cyc EXCEPT
                      !.raised = ~NotQuote(quote) /\ QuoteRaises(quote)]
    /\ UNCHANGED <<CONFIG, ath, price, balance, amount_sol, amount_lamports,
                   i, sig, prev, maxSince>>

\* execute_jupiter_swap and the rest of check_and_buyback: nothing is signed
\* or sent, no transaction id exists
execute_jupiter_swap ==
    /\ pc = "jupiter"
    /\ \E swap_result \in SwapAnswers, stop \in Stops :
         LET a2 == AthAfterJupiter(swap_result, price, ath) IN
         /\ stop = "early" => a2 # ath
         /\ ath' = IF stop = "early" THEN ath ELSE a2
         /\ maxSince' = IF a2 # ath /\ stop # "early" THEN price ELSE maxSince
         /\ cyc' = [cyc EXCEPT
                      !.swapCalled = TRUE,
                      !.swapDone = TRUE,
                      !.raised = SwapRaises(swap_result),
                      !.attempts = Append(@, "jupiter"),
                      !.amountA = amount_lamports,
                      !.aOutcome = swap_result]
         /\ pc' = AfterStop(stop, "sleep")
         /\ interrupted' = (stop # "no")
    /\ UNCHANGED <<CONFIG, price, balance, amount_sol, amount_lamports, i, sig,
                   prev>>

\* KeyboardInterrupt during a blocking call of buyback.py: every helper
\* catches Exception only, so the interrupt gets through at every step
InterruptBasic ==
    /\ pc \in {"start", "poll", "balance", "quote", "jupiter", "sleep"}
    /\ pc' = "stopped"
    /\ interrupted' = TRUE
    /\ UNCHANGED <<CONFIG, ath, price, balance, amount_sol, amount_lamports,
                   i, sig, cyc, prev, maxSince>>

NextBasic ==
    \/ StartBasic
    \/ FetchPrice
    \/ PriceRaises
    \/ check_and_buyback
    \/ get_jupiter_quote
    \/ execute_jupiter_swap
    \/ Sleep
    \/ InterruptBasic

SpecBasic == InitBasic /\ [][NextBasic]_vars

(***************************************************************************)
(* Properties.                                                             *)
(***************************************************************************)
\* The buyback path was entered in the running cycle: get_balance is about
\* to be called or was called.
Trig == pc = "balance" \/ cyc.balQueried

\* C1: ath never decreases in a step, except in the step in which
\* execute_swap returned a transaction id, and the step that obtains a
\* transaction id sets ath to the price observed in that cycle (when no
\* KeyboardInterrupt ends the process between the return and the assignment).
C1_AthMonotoneExceptBuyback ==
    [][ /\ (ath' < ath => (sig' # NoSig /\ cyc'.swapCalled))
        /\ ((sig = NoSig /\ sig' # NoSig /\ ~interrupted')
               => (ath' = price /\ price' = price)) ]_vars

C1_Witness ==
    /\ pc = "sleep"
    /\ sig # NoSig
    /\ ath = price
    /\ ath < cyc.athStart

\* The ways execute_swap_pumpfun fails.
AFailures == {"request_error", "short_payload", "sign_error", "submit_rejected",
              "err", "rpc_error", "timeout"}

\* C2: once venue A has failed in a cycle, venue B is the next thing
\* attempted in that cycle (unless the process is interrupted first), and an
\* accepted venue B submission makes the result of execute_swap venue B's
\* transaction id.
C2_FallbackToRaydium ==
    cyc.aOutcome \in AFailures =>
        \/ pc = "raydium"
        \/ pc = "stopped" /\ cyc.attempts = <<"A">>
        \/ /\ cyc.attempts = <<"A", "B">>
           /\ cyc.bOutcome = "accepted" =>
                (sig = "txB" /\ (~interrupted => ath = price))

C2_Witness ==
    /\ pc = "sleep"
    /\ cyc.aOutcome = "timeout"
    /\ cyc.polls = CONFIRM_POLLS
    /\ cyc.bOutcome = "accepted"
    /\ sig = "txB"

\* C3: when execute_swap was called and gave no transaction id, ath is what
\* it was when the dip was computed; and in the cycle after such a cycle
\* (when it is not interrupted) a fetched price whose dip from that ath
\* reaches the threshold, (ath - price) / ath >= DIP_THRESHOLD, enters the
\* buyback path again: the balance is queried, and execute_swap is called
\* when the balance leaves something above the reserve.
C3_FailedSwapRetriggers ==
    /\ (cyc.swapCalled /\ cyc.swapDone /\ sig = NoSig) => ath = cyc.athCheck
    /\ (/\ prev.swapFailed
        /\ cyc.fetched
        /\ ~interrupted
        /\ price <= prev.ath
        /\ (prev.ath - price) * DIP_THRESHOLD[2] >= DIP_THRESHOLD[1] * prev.ath)
       => /\ Trig
          /\ (cyc.balQueried /\ balance > MIN_SOL_BALANCE) => cyc.swapCalled

\* C4: in a cycle that began with ath = 0 and fetched a price, the buyback
\* path is not entered (no balance query, no venue contacted) and ath is
\* the observed price.
C4_InitialisationGuard ==
    (cyc.fetched /\ cyc.athStart = 0 /\ ~interrupted) =>
        /\ ~Trig
        /\ cyc.attempts = <<>>
        /\ ath = price

\* C5: in a cycle that began with ath > 0 and observed a price equal to
\* ath, the buyback path is not entered, the new-ATH branch is not taken
\* and ath is unchanged.
C5_EqualPriceIsNoDip ==
    (cyc.fetched /\ cyc.athStart > 0 /\ price = cyc.athStart) =>
        /\ ~Trig
        /\ cyc.attempts = <<>>
        /\ ~cyc.newAth
        /\ ath = cyc.athStart

\* C6: in a cycle that began with ath > 0 and observed a price below ath
\* (and was not interrupted), the buyback path is entered exactly when
\* (ath - price) / ath >= DIP_THRESHOLD, the quotient taken of the decimal
\* prices and the boundary included; with threshold 0.25: a first price 10.0 and then 12.0
\* raise ath without trigger, from ath 12.0 the price 9.0 triggers, 9.5
\* does not, and 8.9999 triggers (also right after a failed swap at 9.0).
C6_TriggerIffDipReached ==
    /\ (cyc.fetched /\ cyc.athStart > 0 /\ price < cyc.athStart
          /\ ~interrupted) =>
         (Trig <=> (cyc.athStart - price) * DIP_THRESHOLD[2]
                     >= DIP_THRESHOLD[1] * cyc.athStart)
    /\ (cyc.fetched /\ DIP_THRESHOLD = <<1, 4>> /\ ~interrupted) =>
         /\ (cyc.athStart = 0 /\ price = 100000) => (~Trig /\ ath = 100000)
         /\ (cyc.athStart = 100000 /\ price = 120000) => (~Trig /\ ath = 120000)
         /\ (cyc.athStart = 120000 /\ price = 90000) => Trig
         /\ (cyc.athStart = 120000 /\ price = 95000) => ~Trig
         /\ (cyc.athStart = 120000 /\ price = 89999) => Trig

\* floor(a * f[1] / f[2]) without leaving 32 bits
MulFloor(a, f) == (a \div f[2]) * f[1] + ((a % f[2]) * f[1]) \div f[2]

\* amount (in lamports) is available * f with nothing lost
ExactSpend(available, f, amount) ==
    /\ amount = MulFloor(available, f)
    /\ ((available % f[2]) * f[1]) % f[2] = 0

\* C7: after a balance B was fetched in a triggered cycle: if B - R <= 0 no
\* venue is contacted; otherwise the amount of the quote and the amounts
\* sent to venue A and to venue B are (B - R) * F exactly.
C7_SpendIsExact ==
    (cyc.balQueried /\ balance # None) =>
        /\ (balance - MIN_SOL_BALANCE <= 0) => (cyc.attempts = <<>> /\ ~cyc.swapCalled)
        /\ cyc.swapCalled =>
             /\ ExactSpend(balance - MIN_SOL_BALANCE, BUYBACK_PERCENT, amount_sol)
             /\ cyc.amountA # None =>
                  ExactSpend(balance - MIN_SOL_BALANCE, BUYBACK_PERCENT, cyc.amountA)
             /\ cyc.amountB # None =>
                  ExactSpend(balance - MIN_SOL_BALANCE, BUYBACK_PERCENT, cyc.amountB)

\* C8: the step in which get_price returns None changes neither ath nor
\* anything else of the program state, enters no buyback path and goes to
\* the sleep; a cycle without a price never queries the balance nor
\* contacts a venue; and the sleep is followed by the next cycle.
C8_FetchFailureSkipsCycle ==
    /\ [][ (pc = "poll" /\ price' = None /\ ~cyc'.raised /\ pc' # "stopped") =>
             /\ pc' = "sleep"
             /\ ath' = ath
             /\ sig' = sig
             /\ ~cyc'.balQueried
             /\ cyc'.attempts = <<>> ]_vars
    /\ [][ pc = "sleep" => pc' \in {"poll", "stopped"} ]_vars
    /\ []((price = None /\ pc \notin {"start", "poll", "stopped", "crashed"})
             => (pc = "sleep" /\ ~cyc.balQueried /\ cyc.attempts = <<>>
                 /\ ath = cyc.athStart))

C8_Witness ==
    /\ pc = "sleep"
    /\ price = None
    /\ ~cyc.raised
    /\ ath = 120000

\* C9: when get_balance gave no balance in a triggered cycle, no venue is
\* contacted, execute_swap is not called, ath is what it was when the dip
\* was computed, and the process is at the sleep that precedes the next
\* cycle (or was interrupted there).
C9_BalanceFailureAborts ==
    (cyc.balQueried /\ balance = None) =>
        /\ cyc.attempts = <<>>
        /\ ~cyc.swapCalled
        /\ ath = cyc.athCheck
        /\ (pc = "sleep" \/ (pc = "stopped" /\ interrupted))

C9_Witness ==
    /\ pc = "sleep"
    /\ cyc.triggered
    /\ cyc.balQueried
    /\ balance = None
    /\ ath = 120000

\* C10: the process leaves the polling loop only by a KeyboardInterrupt.
C10_OnlyInterruptStops ==
    pc \in {"stopped", "crashed"} => interrupted


\* C11: in the cycle after a cycle that stopped for insufficient funds, ath
\* still having the value it had there, the buyback path is not entered (no
\* balance query, no venue contacted).
C11_NoRetryAfterInsufficientFunds ==
    (prev.insuffAth > 0 /\ cyc.athStart = prev.insuffAth /\ pc # "poll") =>
        (~Trig /\ cyc.attempts = <<>>)


\* C12: at the end of a cycle that fetched a positive price, ath is at
\* least that price and at least every price fetched since ath was last
\* reset by a buyback (or since the start); and ath = 0 only as long as no
\* price has been fetched.
C12_AthBoundsPrices ==
    /\ (pc = "sleep" /\ cyc.fetched /\ price > 0) =>
         (ath >= price /\ ath >= maxSince)
    /\ (ath = 0 /\ ~interrupted) => maxSince = None


\* C13: venue A makes at most 30 status queries and then stops querying;
\* it gives its transaction id only when the latest query reported the
\* transaction without error; an error status ends the polling at once
\* with failure; and 30 queries without a status end it with failure.
C13_PumpfunConfirmationBounded ==
    /\ cyc.polls <= 30
    /\ pc = "confirm" => (cyc.polls < 30 /\ cyc.lastStatus \in {"none", "pending"})
    /\ sig = "txA" => (cyc.lastStatus = "confirmed" /\ cyc.polls \in 1..30)
    /\ cyc.lastStatus = "err" =>
           (sig # "txA" /\ pc # "confirm" /\ cyc.aOutcome = "err")
    /\ (cyc.lastStatus = "pending" /\ cyc.polls = 30) =>
           (pc \in {"raydium", "raydium_send", "sleep", "stopped"}
            /\ sig # "txA"
            /\ (sig = NoSig => ath = cyc.athCheck))

C13_Witness ==
    /\ pc = "raydium"
    /\ cyc.lastStatus = "pending"
    /\ cyc.polls = 30
    /\ sig = NoSig


\* C14: in one cycle the venues are attempted at most once each and in the
\* order A, B; B is attempted only after A has returned failure; and when
\* both have failed the cycle ends in failure (no transaction id, ath as it
\* was at the check) with nothing left but the sleep before the next cycle.
C14_EachVenueOnceInOrder ==
    /\ cyc.attempts \in {<<>>, <<"A">>, <<"A", "B">>}
    /\ pc = "pumpfun" => cyc.attempts = <<>>
    /\ pc \in {"pumpfun_send", "confirm"} => cyc.attempts = <<"A">>
    /\ pc = "raydium" => (cyc.attempts = <<"A">> /\ cyc.aOutcome \in AFailures)
    /\ cyc.attempts = <<"A", "B">> =>
         /\ cyc.aOutcome \in AFailures
         /\ pc \in {"raydium_send", "sleep", "stopped"}
         /\ pc = "raydium_send" => cyc.bOutcome = "none"
         /\ cyc.bOutcome # "accepted" => (sig = NoSig /\ ath = cyc.athCheck)

C14_Witness ==
    /\ pc = "sleep"
    /\ cyc.attempts = <<"A", "B">>
    /\ cyc.aOutcome = "err"
    /\ cyc.bOutcome = "rejected"
    /\ sig = NoSig


\* C15: venue B gives the transaction id as soon as send_raw_transaction
\* returns, and the cycle then ends in a buyback with ath reset to the price
\* (unless a KeyboardInterrupt falls before the reset), while the steps of
\* venue B make no status query; a rejected submission
\* or a route response that is missing, unsuccessful or without payload
\* gives failure and leaves ath alone.
C15_RaydiumSuccessOnSubmission ==
    /\ [](cyc.bOutcome = "accepted" =>
             (sig = "txB" /\ (~interrupted => ath = price)
              /\ pc \in {"sleep", "stopped"}))
    /\ [](cyc.bOutcome \in {"rejected", "no_route"} =>
             (sig = NoSig /\ ath = cyc.athCheck))
    /\ [][(pc \in {"raydium", "raydium_send"}) => cyc'.polls = cyc.polls]_vars

C15_Witness ==
    /\ pc = "sleep"
    /\ cyc.bOutcome = "accepted"
    /\ sig = "txB"
    /\ ath = price
    /\ ath < cyc.athStart
    /\ cyc.polls = 0


\* C16 as stated: in every cycle at most one transaction is submitted
\* across both venues: when venue B submits, venue A has not submitted.
C16_AtMostOneSubmission ==
    /\ Len(cyc.submitted) <= 1
    /\ (\E k \in 1..Len(cyc.submitted) : cyc.submitted[k] = "B") =>
           ~(\E k \in 1..Len(cyc.submitted) : cyc.submitted[k] = "A")

\* C16 amended: in every cycle each venue submits at most one transaction,
\* venue A before venue B; venue B submits after
\* a submission of venue A only when venue A's transaction was not seen
\* confirmed (error status, failed status query, or 30 queries without
\* status); and when venue A's transaction was seen confirmed, it is the
\* only submission of the cycle.
C16_OneSubmissionPerVenue ==
    /\ cyc.submitted \in {<<>>, <<"A">>, <<"B">>, <<"A", "B">>}
    /\ Len(cyc.bEntries) <= 1
    /\ cyc.submitted = <<"A", "B">> =>
         /\ cyc.aOutcome \in {"err", "rpc_error", "timeout"}
         /\ sig = "txB"
    /\ sig = "txA" => cyc.submitted = <<"A">>
    /\ cyc.aOutcome = "confirmed" => cyc.submitted = <<"A">>

C16_Witness ==
    /\ pc = "sleep"
    /\ cyc.submitted = <<"A", "B">>
    /\ cyc.aOutcome = "timeout"
    /\ cyc.polls = 30
    /\ sig = "txB"


\* C17: the buyback path (balance query, swap attempt) is entered in a cycle
\* only if its price was fetched and, at the check, ath > 0 and
\* (ath - price) / ath >= DIP_THRESHOLD; never in a cycle that raised ath;
\* and only when the price is that far below the maximum of the prices seen
\* since the last reset, the reset price included.
C17_PathOnlyOnDip ==
    /\ Trig =>
         /\ cyc.fetched
         /\ cyc.athCheck > 0
         /\ (cyc.athCheck - price) * DIP_THRESHOLD[2]
                >= DIP_THRESHOLD[1] * cyc.athCheck
    /\ Trig => (~cyc.newAth /\ cyc.athCheck = cyc.athStart)
    /\ pc = "balance" =>
         /\ maxSince > 0
         /\ (maxSince - price) * DIP_THRESHOLD[2] >= DIP_THRESHOLD[1] * maxSince


\* C18: in both variants ath is lowered only by a step in which swap
\* execution signed and submitted a transaction and obtained its
\* transaction id; an unsigned payload alone never lowers ath.
C18_AthLoweredOnlyBySubmittedSwap ==
    [][ath' < ath => (cyc'.submitted # <<>> /\ sig' # NoSig)]_vars


\* C19: a fetched price of 0 while ath is unset enters no buyback path and
\* leaves ath at 0; the division fails inside the cycle, the loop catches
\* the error and sleeps, and the next cycle follows unless the operator
\* interrupts.
C19_ZeroPriceWhileUnset ==
    /\ []((cyc.fetched /\ cyc.athStart = 0 /\ price = 0) =>
            /\ ~Trig
            /\ cyc.attempts = <<>>
            /\ ath = 0
            /\ cyc.raised
            /\ pc \in {"sleep", "stopped"}
            /\ pc = "stopped" => interrupted)
    /\ [][(pc = "sleep" /\ cyc.fetched /\ cyc.athStart = 0 /\ price = 0) =>
            (pc' = "poll" \/ interrupted')]_vars

C19_Witness ==
    /\ pc = "sleep"
    /\ cyc.fetched
    /\ cyc.athStart = 0
    /\ price = 0
    /\ cyc.raised
    /\ ath = 0
    /\ ~interrupted


\* C20: one call of venue B hands at most one entry of the route response
\* to send_raw_transaction, the first entry that carries a payload, and the
\* outcome of that submission is the result of the call: no later entry is
\* sent, whether the submission was taken or rejected.
C20_RaydiumSubmitsFirstPayloadOnly ==
    /\ Len(cyc.bEntries) <= 1
    /\ cyc.bEntries # <<>> =>
         LET k == cyc.bEntries[1] IN
         /\ k \in 1..Len(cyc.txList)
         /\ cyc.txList[k]
         /\ \A j \in 1..(k - 1) : ~cyc.txList[j]
         /\ cyc.bOutcome \in {"accepted", "rejected"}
         /\ cyc.bOutcome = "accepted" => sig = "txB"
         /\ cyc.bOutcome = "rejected" => sig = NoSig
    /\ cyc.bEntries = <<>> => sig # "txB"

C20_Witness ==
    /\ pc = "sleep"
    /\ cyc.txList = <<TRUE, TRUE>>
    /\ cyc.bEntries = <<1>>
    /\ cyc.bOutcome = "rejected"
    /\ sig = NoSig

====
